---- MODULE Spec2Model ----
(***************************************************************************)
(* Model of gluonnlp/data/utils.py: concat_sequence, slice_sequence,       *)
(* _slice_pad_length, train_valid_split and _load_pretrained_vocab.        *)
(*                                                                         *)
(* One behaviour is one call of one function.  Init draws the function and *)
(* its arguments (and, for the vocabulary loader, the file system and the  *)
(* archive held by the repository server); the actions are the statements  *)
(* of that function in program order, `pc` being the position of the call. *)
(* A call ends with pc = "return" or with pc = "raise" and the exception   *)
(* class in `exc`.                                                         *)
(*                                                                         *)
(* Python lists are sequences; Python's 0-based index i is position i + 1. *)
(* Tokens are naturals; 0 is the token that Python treats as false (the    *)
(* empty string, 0, None), every other token is true.                      *)
(***************************************************************************)
EXTENDS Integers, Sequences, FiniteSets, TLC

\* ---- bounds of the model ------------------------------------------------
MaxSeqLen == 6      \* longest token list given to slice_sequence
MaxLength == 4      \* largest `length` and `overlap` given to slice_sequence
MaxToken == 2       \* tokens of slice_sequence are 1..MaxToken
MaxSeqs == 2        \* most sequences given to concat_sequence
MaxInner == 2       \* longest sequence given to concat_sequence
MaxData == 4        \* largest dataset given to train_valid_split
RatioDen == 4       \* valid_ratio is a multiple of 1/RatioDen

Min(a, b) == IF a < b THEN a ELSE b
Max(a, b) == IF a < b THEN b ELSE a

\* All sequences over S of length at most n.
SeqsUpTo(S, n) == UNION {[1..k -> S] : k \in 0..n}

VARIABLES
    fn,             \* the function called
    pc,             \* position of the call
    exc,            \* exception raised, "none" while there is none
    \* slice_sequence
    arg_sequence,   \* the list passed as `sequence`
    sequence,       \* the local `sequence` (rebound by the padding)
    length, pad_last, pad_val, overlap,
    ss_ret,         \* the list of windows returned
    \* concat_sequence
    sequences,
    cs_ret,
    \* train_valid_split
    num_train,      \* len(dataset); sample i of the dataset is named i
    valid_ratio,    \* numerator of valid_ratio, over RatioDen
    num_valid,
    indices,
    train, valid,
    \* _load_pretrained_vocab
    name_known,     \* name in _vocab_sha1
    archive,        \* what the repository serves for the vocabulary
    cached,         \* content of the vocabulary file when the call began
    fs_root,        \* os.path.exists(root)
    fs_file,        \* content of file_path, "absent" if it does not exist
    fs_zip,         \* content of zip_file_path, "absent" if it does not exist
    effects,        \* file-system and network operations done by the call
    vocab           \* the vocabulary returned: the content it was loaded from

ss_vars == <<arg_sequence, sequence, length, pad_last, pad_val, overlap, ss_ret>>
cs_vars == <<sequences, cs_ret>>
tv_vars == <<num_train, valid_ratio, num_valid, indices, train, valid>>
lv_vars == <<name_known, archive, cached, fs_root, fs_file, fs_zip, effects, vocab>>
vars == <<fn, pc, exc, ss_vars, cs_vars, tv_vars, lv_vars>>

\* ---- Python primitives ---------------------------------------------------

\* PySlice with the end index taken as the last index of the slice.
PySlice_EndInclusive(s, a, b) == SubSeq(s, a + 1, Min(b - 1, Len(s)))

\* s[a:b] for 0 <= a, 0 <= b: the slice stops at the end of the list.
PySlice(s, a, b) == SubSeq(s, a + 1, Min(b, Len(s)))

\* [v] * k; a negative k gives the empty list.
PyRepeat(v, k) == [i \in 1..k |-> v]

\* bool(token)
Truthy(token) == token # 0

\* ---- slice_sequence and _slice_pad_length ---------------------------------

\* The guard of line 174 with < for <=.
LengthTooSmall_Strict(len, ovl) == len < ovl

\* The guard of line 174.
LengthTooSmall(len, ovl) == len <= ovl

_slice_pad_length(num_items, len, ovl) ==
    LET step == len - ovl
        span == num_items - len
        residual == span % step
    IN  IF residual # 0 THEN step - residual ELSE 0

\* Line 180 counting one window too many.
NumSamples_PlusTwo(n, len, ovl) == (n - len) \div (len - ovl) + 2

\* Line 180.
NumSamples(n, len, ovl) == (n - len) \div (len - ovl) + 1

\* Line 182 with the windows laid side by side, the overlap forgotten.
Window_NoOverlap(s, i, len, ovl) == PySlice(s, i * len, (i + 1) * len)

\* Line 182: the i-th window, i 0-based.
Window(s, i, len, ovl) == PySlice(s, i * (len - ovl), (i + 1) * len - i * ovl)

SS_Idle ==
    /\ arg_sequence = <<>> /\ sequence = <<>> /\ length = 1
    /\ pad_last = FALSE /\ pad_val = 0 /\ overlap = 0 /\ ss_ret = <<>>

SS_Init ==
    /\ fn = "slice_sequence" /\ pc = "ss_check"
    /\ arg_sequence \in SeqsUpTo(1..MaxToken, MaxSeqLen)
    /\ sequence = arg_sequence
    /\ length \in 1..MaxLength
    /\ overlap \in 0..MaxLength
    /\ pad_last \in BOOLEAN
    /\ pad_val \in 0..1
    /\ ss_ret = <<>>

\* Lines 174-175.
SS_Check ==
    /\ pc = "ss_check"
    /\ IF LengthTooSmall(length, overlap)
       THEN pc' = "raise" /\ exc' = "ValueError"
       ELSE pc' = "ss_pad" /\ exc' = exc
    /\ UNCHANGED <<fn, ss_vars, cs_vars, tv_vars, lv_vars>>

\* Lines 177-179; _slice_pad_length raises by itself at lines 204-205.
SS_Pad ==
    /\ pc = "ss_pad"
    /\ IF pad_last
       THEN IF length <= overlap
            THEN pc' = "raise" /\ exc' = "ValueError" /\ sequence' = sequence
            ELSE /\ sequence' = sequence \o
                        PyRepeat(pad_val, _slice_pad_length(Len(sequence), length, overlap))
                 /\ pc' = "ss_slice" /\ exc' = exc
       ELSE pc' = "ss_slice" /\ exc' = exc /\ sequence' = sequence
    /\ UNCHANGED <<fn, arg_sequence, length, pad_last, pad_val, overlap, ss_ret,
                   cs_vars, tv_vars, lv_vars>>

\* Lines 180-183; `//` by zero raises ZeroDivisionError.
SS_Slice ==
    /\ pc = "ss_slice"
    /\ IF length - overlap = 0
       THEN pc' = "raise" /\ exc' = "ZeroDivisionError" /\ ss_ret' = ss_ret
       ELSE /\ ss_ret' = [k \in 1..NumSamples(Len(sequence), length, overlap) |->
                              Window(sequence, k - 1, length, overlap)]
            /\ pc' = "return" /\ exc' = exc
    /\ UNCHANGED <<fn, arg_sequence, sequence, length, pad_last, pad_val, overlap,
                   cs_vars, tv_vars, lv_vars>>

\* ---- concat_sequence ------------------------------------------------------

RECURSIVE Flatten(_)
Flatten(seqs) ==
    IF seqs = <<>> THEN <<>> ELSE Head(seqs) \o Flatten(Tail(seqs))

\* Line 145: the comprehension keeps the tokens that are true.
concat_sequence(seqs) == SelectSeq(Flatten(seqs), Truthy)

CS_Idle == sequences = <<>> /\ cs_ret = <<>>

CS_Init ==
    /\ fn = "concat_sequence" /\ pc = "cs_call"
    /\ sequences \in SeqsUpTo(SeqsUpTo(0..MaxToken, MaxInner), MaxSeqs)
    /\ cs_ret = <<>>

CS_Call ==
    /\ pc = "cs_call"
    /\ cs_ret' = concat_sequence(sequences)
    /\ pc' = "return"
    /\ UNCHANGED <<fn, exc, sequences, ss_vars, tv_vars, lv_vars>>

\* ---- train_valid_split ----------------------------------------------------

\* Line 261: 0.0 <= valid_ratio <= 1.0, the ratio being r / RatioDen.
RatioInRange(r) == 0 <= r /\ r <= RatioDen

\* Line 265: np.ceil(num_train * valid_ratio).astype('int').
NumValid(n, r) == -((-(n * r)) \div RatioDen)

\* Line 266: np.arange(n).
Arange(n) == [i \in 1..n |-> i - 1]

\* Line 268: the outcomes of np.random.shuffle on arange(n).
Shuffles(n) == {p \in [1..n -> 0..(n - 1)] : \A i, j \in 1..n : p[i] = p[j] => i = j}

\* Line 269: sample i of the dataset is i, so dataset[indices[i]] is indices[i].
ValidSamples(idx, nv) == [i \in 1..nv |-> idx[i]]

\* Line 270 without the offset num_valid.
TrainSamples_NoOffset(idx, n, nv) == [i \in 1..(n - nv) |-> idx[i]]

\* Line 270.
TrainSamples(idx, n, nv) == [i \in 1..(n - nv) |-> idx[i + nv]]

TV_Idle ==
    /\ num_train = 0 /\ valid_ratio = 0 /\ num_valid = 0
    /\ indices = <<>> /\ train = <<>> /\ valid = <<>>

TV_Init ==
    /\ fn = "train_valid_split" /\ pc = "tv_check"
    /\ num_train \in 0..MaxData
    /\ valid_ratio \in (-1)..(RatioDen + 1)
    /\ num_valid = 0 /\ indices = <<>> /\ train = <<>> /\ valid = <<>>

\* Lines 261-266.
TV_Check ==
    /\ pc = "tv_check"
    /\ IF ~RatioInRange(valid_ratio)
       THEN /\ pc' = "raise" /\ exc' = "ValueError"
            /\ UNCHANGED <<num_valid, indices>>
       ELSE /\ num_valid' = NumValid(num_train, valid_ratio)
            /\ indices' = Arange(num_train)
            /\ pc' = "tv_shuffle" /\ exc' = exc
    /\ UNCHANGED <<fn, num_train, valid_ratio, train, valid, ss_vars, cs_vars, lv_vars>>

\* Line 268.
TV_Shuffle ==
    /\ pc = "tv_shuffle"
    /\ indices' \in Shuffles(num_train)
    /\ pc' = "tv_build"
    /\ UNCHANGED <<fn, exc, num_train, valid_ratio, num_valid, train, valid,
                   ss_vars, cs_vars, lv_vars>>

\* Lines 269-271.
TV_Build ==
    /\ pc = "tv_build"
    /\ valid' = ValidSamples(indices, num_valid)
    /\ train' = TrainSamples(indices, num_train, num_valid)
    /\ pc' = "return"
    /\ UNCHANGED <<fn, exc, num_train, valid_ratio, num_valid, indices,
                   ss_vars, cs_vars, lv_vars>>

\* ---- _load_pretrained_vocab -----------------------------------------------

\* Contents of a vocabulary file: the published one and any other.
Contents == {"good", "corrupt"}

\* What the server can hold at the vocabulary's URL: a zip with the published
\* vocabulary file, a zip with a vocabulary file of other content, a zip
\* without the vocabulary file, and something that is not a zip.
Archives == {"zip_good", "zip_corrupt", "zip_empty", "not_zip"}

Sha1Of(content) == IF content = "good" THEN "sha1_good" ELSE "sha1_other"

\* _vocab_sha1[name]
sha1_hash == "sha1_good"

\* A check that accepts every file.
check_sha1_Always(content, hash) == TRUE

\* mxnet's check_sha1(file_path, sha1_hash) on an existing file.
check_sha1(content, hash) == Sha1Of(content) = hash

\* zf.extractall(root): the content file_path has afterwards.
Extracted(zip, old) ==
    CASE zip = "zip_good" -> "good"
      [] zip = "zip_corrupt" -> "corrupt"
      [] OTHER -> old

LV_Idle ==
    /\ name_known = TRUE /\ archive = "zip_good" /\ cached = "absent"
    /\ fs_root = FALSE /\ fs_file = "absent" /\ fs_zip = "absent"
    /\ effects = <<>> /\ vocab = "none"

\* The vocabulary file lies in root, so it exists only if root does; the zip
\* file's name starts with the time of the call, so it does not exist yet.
LV_Init ==
    /\ fn = "_load_pretrained_vocab" /\ pc = "lv_short_hash"
    /\ name_known \in BOOLEAN
    /\ archive \in Archives
    /\ fs_root \in BOOLEAN
    /\ fs_file \in Contents \cup {"absent"}
    /\ fs_file # "absent" => fs_root
    /\ cached = fs_file
    /\ fs_zip = "absent"
    /\ effects = <<>> /\ vocab = "none"

\* Lines 299-303; short_hash raises at lines 275-279.
LV_ShortHash ==
    /\ pc = "lv_short_hash"
    /\ IF name_known
       THEN pc' = "lv_cache" /\ exc' = exc
       ELSE pc' = "raise" /\ exc' = "ValueError"
    /\ UNCHANGED <<fn, ss_vars, cs_vars, tv_vars, lv_vars>>

\* Lines 304-310 with the outcome of the hash check inverted.
LV_Cache_Inverted ==
    /\ pc = "lv_cache"
    /\ IF fs_file # "absent" /\ ~check_sha1(fs_file, sha1_hash)
       THEN vocab' = fs_file /\ pc' = "return"
       ELSE vocab' = vocab /\ pc' = "lv_makedirs"
    /\ UNCHANGED <<fn, exc, name_known, archive, cached, fs_root, fs_file, fs_zip,
                   effects, ss_vars, cs_vars, tv_vars>>

\* Lines 304-310, with _load_vocab_file of lines 347-353.
LV_Cache ==
    /\ pc = "lv_cache"
    /\ IF fs_file # "absent" /\ check_sha1(fs_file, sha1_hash)
       THEN vocab' = fs_file /\ pc' = "return"
       ELSE vocab' = vocab /\ pc' = "lv_makedirs"
    /\ UNCHANGED <<fn, exc, name_known, archive, cached, fs_root, fs_file, fs_zip,
                   effects, ss_vars, cs_vars, tv_vars>>

\* Lines 312-319.  os.makedirs creates root, or finds it created meanwhile
\* (EEXIST, and root is a directory), or fails for another reason.
LV_Makedirs ==
    /\ pc = "lv_makedirs"
    /\ IF fs_root
       THEN pc' = "lv_download" /\ UNCHANGED <<exc, fs_root, effects>>
       ELSE \E outcome \in {"ok", "EEXIST", "EACCES"} :
              CASE outcome = "ok" ->
                     /\ fs_root' = TRUE /\ effects' = Append(effects, "makedirs")
                     /\ pc' = "lv_download" /\ exc' = exc
                [] outcome = "EEXIST" ->
                     /\ fs_root' = TRUE /\ effects' = effects
                     /\ pc' = "lv_download" /\ exc' = exc
                [] OTHER ->
                     /\ pc' = "raise" /\ exc' = "OSError"
                     /\ UNCHANGED <<fs_root, effects>>
    /\ UNCHANGED <<fn, name_known, archive, cached, fs_file, fs_zip, vocab,
                   ss_vars, cs_vars, tv_vars>>

\* Lines 321-328.  download writes the served bytes to zip_file_path, or raises.
LV_Download ==
    /\ pc = "lv_download"
    /\ \E ok \in BOOLEAN :
          IF ok
          THEN /\ fs_zip' = archive /\ effects' = Append(effects, "download")
               /\ pc' = "lv_extract" /\ exc' = exc
          ELSE /\ pc' = "raise" /\ exc' = "RuntimeError"
               /\ UNCHANGED <<fs_zip, effects>>
    /\ UNCHANGED <<fn, name_known, archive, cached, fs_root, fs_file, vocab,
                   ss_vars, cs_vars, tv_vars>>

\* Lines 329-331.  ZipFile raises on a file that is not a zip; the archive is
\* extracted only if file_path does not exist.
LV_Extract ==
    /\ pc = "lv_extract"
    /\ IF fs_zip = "not_zip"
       THEN /\ pc' = "raise" /\ exc' = "BadZipFile"
            /\ UNCHANGED <<fs_file, effects>>
       ELSE /\ IF fs_file = "absent"
               THEN /\ fs_file' = Extracted(fs_zip, fs_file)
                    /\ effects' = Append(effects, "extractall")
               ELSE UNCHANGED <<fs_file, effects>>
            /\ pc' = "lv_remove" /\ exc' = exc
    /\ UNCHANGED <<fn, name_known, archive, cached, fs_root, fs_zip, vocab,
                   ss_vars, cs_vars, tv_vars>>

\* Lines 332-339.  os.remove deletes the zip, or finds it gone (errno 2), or
\* fails for another reason.
LV_Remove ==
    /\ pc = "lv_remove"
    /\ \E outcome \in {"ok", "ENOENT", "EACCES"} :
          CASE outcome = "ok" ->
                 /\ fs_zip' = "absent" /\ effects' = Append(effects, "remove")
                 /\ pc' = "lv_verify" /\ exc' = exc
            [] outcome = "ENOENT" ->
                 /\ fs_zip' = "absent" /\ effects' = effects
                 /\ pc' = "lv_verify" /\ exc' = exc
            [] OTHER ->
                 /\ pc' = "raise" /\ exc' = "OSError"
                 /\ UNCHANGED <<fs_zip, effects>>
    /\ UNCHANGED <<fn, name_known, archive, cached, fs_root, fs_file, vocab,
                   ss_vars, cs_vars, tv_vars>>

\* Lines 341-344.  check_sha1 opens file_path, which raises if it is absent.
LV_Verify ==
    /\ pc = "lv_verify"
    /\ IF fs_file = "absent"
       THEN pc' = "raise" /\ exc' = "IOError" /\ vocab' = vocab
       ELSE IF check_sha1(fs_file, sha1_hash)
            THEN pc' = "return" /\ exc' = exc /\ vocab' = fs_file
            ELSE pc' = "raise" /\ exc' = "ValueError" /\ vocab' = vocab
    /\ UNCHANGED <<fn, name_known, archive, cached, fs_root, fs_file, fs_zip,
                   effects, ss_vars, cs_vars, tv_vars>>

\* ---- the specification ----------------------------------------------------

Init ==
    /\ exc = "none"
    /\ \/ SS_Init /\ CS_Idle /\ TV_Idle /\ LV_Idle
       \/ CS_Init /\ SS_Idle /\ TV_Idle /\ LV_Idle
       \/ TV_Init /\ SS_Idle /\ CS_Idle /\ LV_Idle
       \/ LV_Init /\ SS_Idle /\ CS_Idle /\ TV_Idle

Next ==
    \/ SS_Check \/ SS_Pad \/ SS_Slice
    \/ CS_Call
    \/ TV_Check \/ TV_Shuffle \/ TV_Build
    \/ LV_ShortHash \/ LV_Cache \/ LV_Makedirs \/ LV_Download
    \/ LV_Extract \/ LV_Remove \/ LV_Verify

Spec == Init /\ [][Next]_vars

TypeOK ==
    /\ fn \in {"slice_sequence", "concat_sequence", "train_valid_split",
               "_load_pretrained_vocab"}
    /\ exc \in {"none", "ValueError", "OSError", "RuntimeError", "BadZipFile",
                "IOError", "ZeroDivisionError"}
    /\ (pc = "raise") = (exc # "none")
    /\ fs_file \in Contents \cup {"absent"}
    /\ fs_zip \in Archives \cup {"absent"}

\* ---- properties ------------------------------------------------------------

Terminal == pc \in {"return", "raise"}

Contains(log, e) == \E i \in 1..Len(log) : log[i] = e

\* Number of positions of s that hold x.
Count(s, x) == Cardinality({i \in 1..Len(s) : s[i] = x})

RECURSIVE SumLen(_)
SumLen(seqs) == IF seqs = <<>> THEN 0 ELSE Len(Head(seqs)) + SumLen(Tail(seqs))

SliceReturned == fn = "slice_sequence" /\ pc = "return"

\* C1: every window returned by slice_sequence has exactly `length` elements,
\* with and without pad_last.
C1_WindowLength ==
    SliceReturned => \A k \in 1..Len(ss_ret) : Len(ss_ret[k]) = length

C1_Witness ==
    /\ SliceReturned /\ pad_last /\ overlap > 0
    /\ Len(sequence) > Len(arg_sequence)
    /\ Len(ss_ret) >= 2

\* C2: with pad_last, a non-empty input gives a non-empty result in which
\* every input element lies in some window at its own position, and every
\* other element of a window is pad_val at the tail of the last window.
C2_PadLastDropsNoData ==
    (SliceReturned /\ pad_last /\ arg_sequence # <<>>) =>
        LET step == length - overlap
            n == Len(arg_sequence)
        IN  /\ ss_ret # <<>>
            /\ \A j \in 1..n : \E k \in 1..Len(ss_ret) :
                   /\ j - (k - 1) * step \in 1..Len(ss_ret[k])
                   /\ ss_ret[k][j - (k - 1) * step] = arg_sequence[j]
            /\ \A k \in 1..Len(ss_ret) : \A p \in 1..Len(ss_ret[k]) :
                   IF (k - 1) * step + p <= n
                   THEN ss_ret[k][p] = arg_sequence[(k - 1) * step + p]
                   ELSE k = Len(ss_ret) /\ ss_ret[k][p] = pad_val

\* C3: with length <= overlap the call raises ValueError at its first
\* statement: nothing was padded and no window is returned.
C3_LengthMustExceedOverlap ==
    (fn = "slice_sequence" /\ length <= overlap /\ pc # "ss_check") =>
        /\ pc = "raise" /\ exc = "ValueError"
        /\ sequence = arg_sequence
        /\ ss_ret = <<>>

C3_Witness ==
    /\ fn = "slice_sequence" /\ pc = "raise" /\ exc = "ValueError"
    /\ length = overlap /\ ~pad_last /\ arg_sequence # <<>>

\* C4: without pad_last the call returns max(0, floor((n - length) / step) + 1)
\* windows, window i holding the elements at indices [i*step, i*step + length).
C4_WindowsWithoutPadding ==
    (SliceReturned /\ ~pad_last) =>
        LET step == length - overlap
            n == Len(arg_sequence)
        IN  /\ Len(ss_ret) = Max(0, (n - length) \div step + 1)
            /\ n < length => ss_ret = <<>>
            /\ \A k \in 1..Len(ss_ret) :
                   ss_ret[k] = [p \in 1..length |-> arg_sequence[(k - 1) * step + p]]

C4_Witness ==
    /\ SliceReturned /\ ~pad_last /\ overlap > 0
    /\ Len(ss_ret) >= 2
    /\ (Len(arg_sequence) - length) % (length - overlap) # 0

\* C5: for overlap = 0, no padding and a sequence length divisible by
\* `length`, the windows concatenated in order are the input sequence.
C5_RoundTrip ==
    (SliceReturned /\ ~pad_last /\ overlap = 0 /\ Len(arg_sequence) % length = 0) =>
        Flatten(ss_ret) = arg_sequence

C5_Witness ==
    /\ SliceReturned /\ ~pad_last /\ overlap = 0
    /\ length = 2 /\ Len(arg_sequence) = 4 /\ Len(ss_ret) = 2
    /\ arg_sequence[1] # arg_sequence[2]

\* C6: concat_sequence returns every token of every sequence, in order; the
\* length of the result is the sum of the lengths of the sequences.
C6_ConcatKeepsEveryToken ==
    (fn = "concat_sequence" /\ pc = "return") =>
        /\ cs_ret = Flatten(sequences)
        /\ Len(cs_ret) = SumLen(sequences)

\* C7: for a valid_ratio in [0, 1] and every shuffle, valid has
\* ceil(n * valid_ratio) samples, train the other samples, and every index of
\* the dataset occurs exactly once in train and valid together; any other
\* valid_ratio raises ValueError and nothing is returned.
C7_SplitIsPartition ==
    (fn = "train_valid_split" /\ Terminal) =>
        IF 0 <= valid_ratio /\ valid_ratio <= RatioDen
        THEN LET c == CHOOSE c \in 0..num_train :
                          /\ c * RatioDen >= num_train * valid_ratio
                          /\ (c - 1) * RatioDen < num_train * valid_ratio
             IN  /\ pc = "return"
                 /\ Len(valid) = c
                 /\ Len(train) = num_train - c
                 /\ \A i \in 0..(num_train - 1) : Count(train, i) + Count(valid, i) = 1
        ELSE /\ pc = "raise" /\ exc = "ValueError"
             /\ train = <<>> /\ valid = <<>>

C7_Witness ==
    /\ fn = "train_valid_split" /\ pc = "return"
    /\ (num_train * valid_ratio) % RatioDen # 0
    /\ Len(valid) >= 2 /\ Len(train) >= 1
    /\ indices # Arange(num_train)

VocabCall == fn = "_load_pretrained_vocab" /\ name_known

\* C8: when the vocabulary file exists with the registered hash on entry, the
\* call returns the vocabulary loaded from it and does nothing else: no
\* download, no directory or zip file created, the file not rewritten.
C8_CacheHit ==
    (VocabCall /\ cached # "absent" /\ Sha1Of(cached) = sha1_hash) =>
        /\ pc \in {"lv_short_hash", "lv_cache", "return"}
        /\ effects = <<>>
        /\ fs_root /\ fs_file = cached /\ fs_zip = "absent"
        /\ pc = "return" => vocab = cached

C8_Witness ==
    /\ VocabCall /\ cached = "good" /\ pc = "return" /\ vocab = "good"
    /\ archive = "zip_corrupt"

\* C9: when the vocabulary file is absent or fails the hash check on entry
\* and the archive downloaded holds the vocabulary file with the registered
\* hash, the call (no system call failing) returns the vocabulary, the local
\* file then having the registered content.
C9_RecoversFromCorruptCache ==
    (/\ VocabCall /\ Terminal
     /\ cached = "absent" \/ Sha1Of(cached) # sha1_hash
     /\ archive = "zip_good"
     /\ exc \notin {"OSError", "RuntimeError"}) =>
        /\ pc = "return"
        /\ Contains(effects, "download")
        /\ fs_file = "good" /\ vocab = "good"

\* C10: a vocabulary is returned only from a file that has the registered
\* hash when it is loaded; a file that fails the check after download and
\* extraction makes the call raise ValueError without a vocabulary, the zip
\* file being deleted by then.
C10_ReturnOnlyVerified ==
    /\ [](fn = "_load_pretrained_vocab" =>
            /\ vocab # "none" => pc = "return"
            /\ pc = "return" => vocab = fs_file /\ Sha1Of(vocab) = sha1_hash
            /\ exc = "ValueError" => vocab = "none" /\ fs_zip = "absent")
    /\ [][(/\ pc = "lv_verify"
           /\ fs_file # "absent"
           /\ Sha1Of(fs_file) # sha1_hash) =>
               /\ pc' = "raise" /\ exc' = "ValueError"
               /\ vocab' = "none" /\ fs_zip' = "absent"]_vars

C10_Witness ==
    /\ VocabCall /\ pc = "raise" /\ exc = "ValueError"
    /\ Contains(effects, "download") /\ Contains(effects, "extractall")
    /\ fs_file = "corrupt" /\ fs_zip = "absent"

====
